---- MODULE Spec2Model ----
(***************************************************************************)
(* TestQueue (bounded concurrent task queue), the /webhooks/linear route   *)
(* with its per-issue record table and the /api/run-test route with its    *)
(* per-test record table.                                                  *)
(*                                                                         *)
(* All handlers run on one JavaScript event loop: an HTTP handler, a timer *)
(* callback and the continuation of a settled work each run to completion  *)
(* without interleaving, so each is one action.                            *)
(***************************************************************************)
EXTENDS Integers, Sequences, FiniteSets, TLC

\* ------------------------------------------------------------------ bounds
MaxTasks == 5        \* enqueue calls made in one behaviour
MaxCeiling == 2      \* ceilings explored: 1..MaxCeiling
MaxRuns == 3         \* runs accepted by the two routes in one behaviour
MaxBlocks == 4       \* blocks of lines in a description
MaxLabels == 1       \* labels on an issue
MaxClock == 3        \* clock ticks of 30 minutes that pass in one behaviour

\* --------------------------------------------------------------- inputs
Ids == {"a", "b", "c"}      \* task ids given to enqueue by direct callers
IssueIds == {"a", "b"}      \* issue ids carried by webhook events

\* JavaScript values that a work can produce or throw.  ref is the object
\* identity (0 for primitives).
Val(kind, num, text, ref) == [kind |-> kind, num |-> num, text |-> text, ref |-> ref]
Undefined == Val("undefined", 0, "", 0)
Results == {Val("object", 0, "passed", 1), Val("object", 0, "failed", 2)}
Failures == {Val("Error", 0, "boom", 3), Val("string", 0, "timeout", 0), Val("number", 42, "", 0)}
Outcomes == [ok : {TRUE}, val : Results] \cup [ok : {FALSE}, val : Failures]
FreshRef == 100      \* object identities above this are allocated by the queue

VARIABLES
  maxConcurrent,  \* TestQueue.maxConcurrent
  queue,          \* TestQueue.queue: sequence of QueuedTask
  running,        \* TestQueue.running: the key set of the Map
  awaiting,       \* processQueue calls suspended at `await nextTask.task()`
  promises,       \* state of the promise returned by enqueue, per live task
  nextTid,        \* arrival number given to the next QueuedTask object
  issueTests,     \* webhooks route: Map issue id -> status ("none" = no entry)
  timers,         \* pending retention timers, in scheduling order: the id each
                  \* will delete and the run whose work set it
  recordRun,      \* per issue id, the run whose acceptance created its entry (0 = none)
  runningTests,   \* api route: Map test -> status, keyed by the run's arrival number
  response,       \* the last HTTP response sent
  purged,         \* issue ids whose entry a retention timer has deleted
  last,           \* the last step taken: operation, task, tasks it admitted and,
                  \* for a completion, the outcome of the work and of the promise
  description,    \* the argument of extractAcceptanceCriteria
  criteria,       \* what extractAcceptanceCriteria returned for it
  payload,        \* the argument of shouldTriggerTests
  shouldTrigger,  \* what shouldTriggerTests returned for it
  now,            \* Date.now(), in ticks of 30 minutes since start-up
  createdAt       \* api route: createdAt of each entry of runningTests

vars == <<maxConcurrent, queue, running, awaiting, promises,
          nextTid, issueTests, timers, recordRun, runningTests, response, purged, last,
          description, criteria, payload, shouldTrigger, now, createdAt>>

\* the arguments and results of the two pure functions of the payload parser
parserVars == <<description, criteria, payload, shouldTrigger>>
\* the clock and the creation times the api route's cleanup reads
clockVars == <<now, createdAt>>

\* ------------------------------------------------ characters and strings
\* A JavaScript string is modelled as the sequence of its characters, each a
\* one-character string.
NL == "\n"
IsSpace(c) == c \in {" ", NL}                         \* \s
IsDigit(c) == c \in {"0", "1", "2", "3", "4", "5", "6", "7", "8", "9"}   \* \d
IsMarker(c) == c \in {"-", "*"}                       \* [-*]
UpperCase == <<"A", "B", "C", "D", "E", "F", "G", "H", "I", "J", "K", "L", "M",
               "N", "O", "P", "Q", "R", "S", "T", "U", "V", "W", "X", "Y", "Z">>
LowerCase == <<"a", "b", "c", "d", "e", "f", "g", "h", "i", "j", "k", "l", "m",
               "n", "o", "p", "q", "r", "s", "t", "u", "v", "w", "x", "y", "z">>
\* the character of String.prototype.toLowerCase, and of the i flag
LowerChar(c) ==
  IF c \in {"A", "B", "C", "D", "E", "F", "G", "H", "I", "J", "K", "L", "M",
            "N", "O", "P", "Q", "R", "S", "T", "U", "V", "W", "X", "Y", "Z"}
  THEN LowerCase[CHOOSE i \in 1..26 : UpperCase[i] = c]
  ELSE c
toLowerCase(str) == [i \in 1..Len(str) |-> LowerChar(str[i])]

Least(S) == CHOOSE x \in S : \A y \in S : x <= y
Greatest(S) == CHOOSE x \in S : \A y \in S : x >= y

\* String.prototype.trim
trim(str) ==
  LET solid == {i \in 1..Len(str) : ~IsSpace(str[i])} IN
    IF solid = {} THEN <<>> ELSE SubSeq(str, Least(solid), Greatest(solid))

\* Array.prototype.includes
includes(arr, x) == \E i \in 1..Len(arr) : arr[i] = x

\* String.prototype.includes
stringIncludes(str, sub) ==
  \E i \in 1..(Len(str) - Len(sub) + 1) : SubSeq(str, i, i + Len(sub) - 1) = sub

\* ------------------------------------------------------- Map<string, ...>
MapHas(m, k) == k \in m
MapSet(m, k) == m \cup {k}
MapDelete(m, k) == m \ {k}
MapSize(m) == Cardinality(m)

\* ------------------------------------------------------------- promises
Pending == [state |-> "pending", val |-> Undefined]
Fulfilled(v) == [state |-> "fulfilled", val |-> v]
Rejected(e) == [state |-> "rejected", val |-> e]

Digit(d) ==
  CASE d = 0 -> "0" [] d = 1 -> "1" [] d = 2 -> "2" [] d = 3 -> "3" [] d = 4 -> "4"
    [] d = 5 -> "5" [] d = 6 -> "6" [] d = 7 -> "7" [] d = 8 -> "8" [] OTHER -> "9"

RECURSIVE NumToString(_)
NumToString(n) == IF n < 10 THEN Digit(n) ELSE NumToString(n \div 10) \o Digit(n % 10)

\* String(error)
StringOf(v) ==
  CASE v.kind = "string" -> v.text
    [] v.kind = "number" -> NumToString(v.num)
    [] v.kind = "Error" -> "Error: " \o v.text
    [] v.kind = "undefined" -> "undefined"
    [] OTHER -> "[object Object]"

\* mutant: the failure value is passed to reject as it is
ToError_passThrough(e, tid) == e

\* error instanceof Error ? error : new Error(String(error))
ToError(e, tid) ==
  IF e.kind = "Error" THEN e ELSE Val("Error", 0, StringOf(e), FreshRef + tid)

\* mutant: resolve() is called without the result of the work
SettlePromise_noValue(outcome, tid) ==
  IF outcome.ok THEN Fulfilled(Undefined) ELSE Rejected(ToError(outcome.val, tid))

\* try { resolve(await task()) } catch (error) { reject(...) }
SettlePromise(outcome, tid) ==
  IF outcome.ok THEN Fulfilled(outcome.val) ELSE Rejected(ToError(outcome.val, tid))

\* ------------------------------------------------------------ the works
\* mutant: the work does not mark the record as running
InvokeWork_noStatus(task, it) == it

\* The work given to enqueue by the webhooks route starts with
\* issueTests.set(id, "running"); a work of another caller leaves the table alone.
InvokeWork(task, it) ==
  IF task.src = "webhook" THEN [it EXCEPT ![task.id] = "running"] ELSE it

\* mutant: the record is completed at the end of the try block only
FinishWork_onSuccess(task, o, it) ==
  IF task.src = "webhook" /\ o.ok THEN [it EXCEPT ![task.id] = "completed"] ELSE it

\* finally { issueTests.set(id, "completed"); setTimeout(delete, 1h) }:
\* runs whatever the outcome o of the try block.
FinishWork(task, o, it) ==
  IF task.src = "webhook" THEN [it EXCEPT ![task.id] = "completed"] ELSE it

\* generateTestId(): a fresh id per request
generateTestId(tid) == "test-" \o NumToString(tid)

\* The work given to enqueue by the api route starts with
\* testState.status = "running", for each task the step admitted.
StartTest(rt, adm) ==
  [t \in DOMAIN rt |-> IF t \in adm THEN "running" ELSE rt[t]]

\* testState.status = "completed", in the try block after the run and in the
\* catch block before the rethrow.  The work writes to the testState object
\* it captured: an entry the cleanup removed from the Map stays removed.
FinishTest(task, o, rt) ==
  IF task.src = "api" /\ task.tid \in DOMAIN rt
  THEN [rt EXCEPT ![task.tid] = "completed"] ELSE rt

ScheduleCleanup(task, tm) ==
  IF task.src = "webhook" THEN Append(tm, [id |-> task.id, run |-> task.tid]) ELSE tm

\* ------------------------------------------------------------ TestQueue
QState(q, r, aw, it, adm) ==
  [queue |-> q, running |-> r, awaiting |-> aw, issueTests |-> it, admitted |-> adm]

\* mutant: queue.pop() instead of queue.shift()
processQueue_pop(q, r, aw, it) ==
  IF MapSize(r) >= maxConcurrent THEN QState(q, r, aw, it, {})
  ELSE IF q = <<>> THEN QState(q, r, aw, it, {})
  ELSE LET nextTask == q[Len(q)] IN
       QState(SubSeq(q, 1, Len(q) - 1), MapSet(r, nextTask.id), aw \cup {nextTask},
              InvokeWork(nextTask, it), {nextTask.tid})

\* mutant: the head of the waiting line is read but not removed
processQueue_peek(q, r, aw, it) ==
  IF MapSize(r) >= maxConcurrent THEN QState(q, r, aw, it, {})
  ELSE IF q = <<>> THEN QState(q, r, aw, it, {})
  ELSE LET nextTask == Head(q) IN
       QState(q, MapSet(r, nextTask.id), aw \cup {nextTask},
              InvokeWork(nextTask, it), {nextTask.tid})

\* processQueue up to its await: admits at most one task.
processQueue(q, r, aw, it) ==
  IF MapSize(r) >= maxConcurrent THEN QState(q, r, aw, it, {})
  ELSE IF q = <<>> THEN QState(q, r, aw, it, {})
  ELSE LET nextTask == Head(q) IN
       QState(Tail(q), MapSet(r, nextTask.id), aw \cup {nextTask},
              InvokeWork(nextTask, it), {nextTask.tid})

\* mutant: the task is pushed and processQueue is not called
enqueue_pushOnly(id, src, it) ==
  QState(Append(queue, [tid |-> nextTid, id |-> id, src |-> src]), running, awaiting, it, {})

\* enqueue: push the task, then processQueue.
enqueue(id, src, it) ==
  processQueue(Append(queue, [tid |-> nextTid, id |-> id, src |-> src]),
               running, awaiting, it)

\* mutant: the finally block does not call processQueue()
complete_noProcessQueue(task, it) ==
  QState(queue, MapDelete(running, task.id), awaiting \ {task}, it, {})

\* mutant: the finally block calls processQueue() before running.delete(id)
complete_checkBeforeDelete(task, it) ==
  LET s == processQueue(queue, running, awaiting \ {task}, it) IN
    QState(s.queue, MapDelete(s.running, task.id), s.awaiting, s.issueTests, s.admitted)

\* The continuation of processQueue after the awaited work settled:
\* settle the promise, running.delete(id), processQueue().
complete(task, it) ==
  processQueue(queue, MapDelete(running, task.id), awaiting \ {task}, it)

getStatus ==
  [queued |-> Len(queue), running |-> MapSize(running), maxConcurrent |-> maxConcurrent,
   runningIds |-> running, queuedIds |-> [i \in 1..Len(queue) |-> queue[i].id]]

isRunning(id) == MapHas(running, id)
isQueued(id) == \E i \in 1..Len(queue) : queue[i].id = id

\* Array.prototype.findIndex, 0-based, -1 when absent
FindIndex(q, id) ==
  IF \E i \in 1..Len(q) : q[i].id = id
  THEN (CHOOSE i \in 1..Len(q) : q[i].id = id /\ \A j \in 1..(i - 1) : q[j].id # id) - 1
  ELSE -1

getPosition(id) ==
  IF MapHas(running, id) THEN 0
  ELSE LET pos == FindIndex(queue, id) IN IF pos = -1 THEN -1 ELSE pos + 1

\* ------------------------------------------------------------- responses
NoResponse == [code |-> 0, message |-> "", issueId |-> "", status |-> "", position |-> 0]
Resp(code, message, issueId, status, position) ==
  [code |-> code, message |-> message, issueId |-> issueId, status |-> status,
   position |-> position]

NoOutcome == [ok |-> TRUE, val |-> Undefined]
Step(op, id, tid, adm) ==
  [op |-> op, id |-> id, tid |-> tid, src |-> "", admitted |-> adm,
   outcome |-> NoOutcome, promise |-> Pending]
Completion(task, adm, o, p) ==
  [op |-> "settle", id |-> task.id, tid |-> task.tid, src |-> task.src, admitted |-> adm,
   outcome |-> o, promise |-> p]

\* ---------------------------------------------- extractAcceptanceCriteria
\* Positions are 1-based; position Len(t) + 1 is the end of the text.  Each
\* regular expression is computed as the backtracking matcher computes it.

\* where a greedy \s* starting at p stops
RECURSIVE SkipSpace(_, _)
SkipSpace(t, p) == IF p > Len(t) \/ ~IsSpace(t[p]) THEN p ELSE SkipSpace(t, p + 1)
\* where a greedy \d* starting at p stops
RECURSIVE SkipDigits(_, _)
SkipDigits(t, p) == IF p > Len(t) \/ ~IsDigit(t[p]) THEN p ELSE SkipDigits(t, p + 1)
\* where a greedy #* starting at p stops
RECURSIVE SkipHashes(_, _)
SkipHashes(t, p) == IF p > Len(t) \/ t[p] # "#" THEN p ELSE SkipHashes(t, p + 1)
\* $ under the m flag: the end of the line that holds p
RECURSIVE LineEnd(_, _)
LineEnd(t, p) == IF p > Len(t) \/ t[p] = NL THEN p ELSE LineEnd(t, p + 1)
\* ^ under the m flag
IsLineStart(t, p) == p = 1 \/ t[p - 1] = NL

NoMatch == [found |-> FALSE, from |-> 0, to |-> 0]
\* a match whose group 1 is t[from..to-1] and whose end (lastIndex) is to
Match(from, to) == [found |-> TRUE, from |-> from, to |-> to]

\* \s*(.+)$ (minSpace = 0) or \s+(.+)$ (minSpace = 1) at position p.  \s also
\* consumes line breaks, so the group starts at the first solid character
\* after p, on whatever line it is.  When only white space is left, \s gives
\* characters back until (.+) can take one that is not a line break.
RestOfLine(t, p, minSpace) ==
  LET r == SkipSpace(t, p) IN
    IF r - p < minSpace THEN NoMatch
    ELSE IF r <= Len(t) THEN Match(r, LineEnd(t, r))
    ELSE LET blanks == {k \in (p + minSpace)..Len(t) : t[k] # NL} IN
           IF blanks = {} THEN NoMatch
           ELSE Match(Greatest(blanks), Greatest(blanks) + 1)

\* mutant: the box must be unchecked
checkboxRegex_unchecked(t, p) ==
  LET q == SkipSpace(t, p)
      b == SkipSpace(t, q + 1) IN
    IF /\ q <= Len(t) /\ IsMarker(t[q])
       /\ b + 2 <= Len(t) /\ t[b] = "[" /\ t[b + 1] = " " /\ t[b + 2] = "]"
    THEN RestOfLine(t, b + 3, 0)
    ELSE NoMatch

\* /^[\s]*[-*]\s*\[[ x]\]\s*(.+)$/gim tried at line start p
checkboxRegex(t, p) ==
  LET q == SkipSpace(t, p)
      b == SkipSpace(t, q + 1) IN
    IF /\ q <= Len(t) /\ IsMarker(t[q])
       /\ b + 2 <= Len(t) /\ t[b] = "[" /\ LowerChar(t[b + 1]) \in {" ", "x"} /\ t[b + 2] = "]"
    THEN RestOfLine(t, b + 3, 0)
    ELSE NoMatch

\* /^[\s]*\d+[.)]\s*(.+)$/gim tried at line start p
numberedRegex(t, p) ==
  LET q == SkipSpace(t, p)
      d == SkipDigits(t, q) IN
    IF d > q /\ d <= Len(t) /\ t[d] \in {".", ")"}
    THEN RestOfLine(t, d + 1, 0)
    ELSE NoMatch

\* /^[\s]*[-*]\s+(.+)$/gim tried at line start p
bulletRegex(t, p) ==
  LET q == SkipSpace(t, p) IN
    IF q <= Len(t) /\ IsMarker(t[q]) THEN RestOfLine(t, q + 1, 1) ELSE NoMatch

RegexAt(regex, t, p) ==
  CASE regex = "checkbox" -> checkboxRegex(t, p)
    [] regex = "numbered" -> numberedRegex(t, p)
    [] OTHER -> bulletRegex(t, p)

\* regex.exec(t) with regex.lastIndex = lastIndex (0-based): the match at the
\* first line start after lastIndex at which the expression matches.
RECURSIVE ExecFrom(_, _, _)
ExecFrom(regex, t, p) ==
  IF p > Len(t) THEN NoMatch
  ELSE LET match == RegexAt(regex, t, p) IN
         IF IsLineStart(t, p) /\ match.found THEN match
         ELSE ExecFrom(regex, t, p + 1)
exec(regex, t, lastIndex) == ExecFrom(regex, t, lastIndex + 1)

\* mutant: a criterion is pushed even when the list already includes it
push_noIncludes(list, criterion) ==
  IF criterion # <<>> THEN Append(list, criterion) ELSE list

\* if (criterion && !criteria.includes(criterion)) criteria.push(criterion)
push(list, criterion) ==
  IF criterion # <<>> /\ ~includes(list, criterion)
  THEN Append(list, criterion) ELSE list

\* while ((match = regex.exec(t)) !== null) { push(match[1].trim()) }
RECURSIVE Collect(_, _, _, _)
Collect(regex, t, lastIndex, list) ==
  LET match == exec(regex, t, lastIndex) IN
    IF ~match.found THEN list
    ELSE Collect(regex, t, match.to - 1,
                 push(list, trim(SubSeq(t, match.from, match.to - 1))))

\* the i flag: the word w, in any case, at position p
WordAt(t, p, w) ==
  p + Len(w) - 1 <= Len(t) /\ \A i \in 1..Len(w) : LowerChar(t[p + i - 1]) = w[i]

Acceptance == <<"a", "c", "c", "e", "p", "t", "a", "n", "c", "e">>
Criteria == <<"c", "r", "i", "t", "e", "r", "i", "a">>

\* (?:^|\n)#{1,3}\s*acceptance\s*criteria\s*\n with the first # at h: the
\* position where the body starts (0 = no match).  The greedy \s* before \n
\* runs over blank lines, so the body starts after the last line break of
\* the white space that follows the heading text.
HeadingAt(t, h) ==
  LET n == SkipHashes(t, h) - h
      a == SkipSpace(t, h + n)
      c == SkipSpace(t, a + Len(Acceptance))
      w == c + Len(Criteria)
      breaks == {k \in w..(SkipSpace(t, w) - 1) : t[k] = NL} IN
    IF /\ IsLineStart(t, h) /\ n \in 1..3
       /\ WordAt(t, a, Acceptance) /\ WordAt(t, c, Criteria)
       /\ breaks # {}
    THEN Greatest(breaks) + 1
    ELSE 0

\* mutant: the body ends only at a heading that is not deeper than "##"
TerminatorAt_shallow(t, e) ==
  \/ e = Len(t) + 1
  \/ /\ t[e] = NL
     /\ \/ LET n == SkipHashes(t, e + 1) - (e + 1) IN
             n \in 1..2 /\ e + 1 + n <= Len(t) /\ IsSpace(t[e + 1 + n])
        \/ e + 2 <= Len(t) /\ t[e + 1] = NL /\ t[e + 2] = NL

\* (?=\n#{1,3}\s|\n\n\n|$) at position e
TerminatorAt(t, e) ==
  \/ e = Len(t) + 1
  \/ /\ t[e] = NL
     /\ \/ LET n == SkipHashes(t, e + 1) - (e + 1) IN
             n \in 1..3 /\ e + 1 + n <= Len(t) /\ IsSpace(t[e + 1 + n])
        \/ e + 2 <= Len(t) /\ t[e + 1] = NL /\ t[e + 2] = NL

NoSection == [found |-> FALSE, from |-> 0, to |-> 0]
\* description.match(acSectionRegex): the leftmost heading that matches, and
\* its group 1 = description[from..to-1], the shortest body that a
\* terminator follows.
RECURSIVE FirstHeading(_, _)
FirstHeading(t, h) ==
  IF h > Len(t) THEN 0
  ELSE IF t[h] = "#" /\ HeadingAt(t, h) > 0 THEN h
  ELSE FirstHeading(t, h + 1)
RECURSIVE FirstTerminator(_, _)
FirstTerminator(t, e) == IF TerminatorAt(t, e) THEN e ELSE FirstTerminator(t, e + 1)
acSectionMatch(t) ==
  LET h == FirstHeading(t, 1) IN
    IF h = 0 THEN NoSection
    ELSE LET from == HeadingAt(t, h) IN
           [found |-> TRUE, from |-> from, to |-> FirstTerminator(t, from)]

\* A description is null, undefined or a string.
Null == [kind |-> "null", chars |-> <<>>]
NoDescription == [kind |-> "undefined", chars |-> <<>>]
Str(chars) == [kind |-> "string", chars |-> chars]
\* !description
IsFalsy(d) == d.kind # "string" \/ d.chars = <<>>

Returned(value) == [called |-> TRUE, threw |-> FALSE, value |-> value]
Threw == [called |-> TRUE, threw |-> TRUE, value |-> <<>>]
NotCalled == [called |-> FALSE, threw |-> FALSE, value |-> <<>>]

\* mutant: the whole description is searched although a section was found
textToSearch_wholeText(t) == t

textToSearch(t) ==
  LET acSection == acSectionMatch(t) IN
    IF acSection.found THEN SubSeq(t, acSection.from, acSection.to - 1) ELSE t

\* mutant: numbered items are collected after the checkboxes in any case
ScanCriteria_noPrecedence(t) ==
  LET text == textToSearch(t)
      boxes == Collect("checkbox", text, 0, <<>>)
      numbers == Collect("numbered", text, 0, boxes)
  IN IF numbers = <<>> /\ acSectionMatch(t).found
     THEN Collect("bullet", text, 0, numbers)
     ELSE numbers

\* mutant: bullets are collected whether or not a section was found
ScanCriteria_bulletsAnywhere(t) ==
  LET text == textToSearch(t)
      boxes == Collect("checkbox", text, 0, <<>>)
      numbers == IF boxes = <<>> THEN Collect("numbered", text, 0, boxes) ELSE boxes
  IN IF numbers = <<>>
     THEN Collect("bullet", text, 0, numbers)
     ELSE numbers

\* the body of the function for a string: checkboxes, else numbered items,
\* else (in a section only) bullets
ScanCriteria(t) ==
  LET text == textToSearch(t)
      boxes == Collect("checkbox", text, 0, <<>>)
      numbers == IF boxes = <<>> THEN Collect("numbered", text, 0, boxes) ELSE boxes
  IN IF numbers = <<>> /\ acSectionMatch(t).found
     THEN Collect("bullet", text, 0, numbers)
     ELSE numbers

\* mutant: no guard for a missing description; null.match(...) throws
extractAcceptanceCriteria_noGuard(d) ==
  IF d.kind # "string" THEN Threw ELSE Returned(ScanCriteria(d.chars))

extractAcceptanceCriteria(d) ==
  IF IsFalsy(d) THEN Returned(<<>>)
  ELSE Returned(ScanCriteria(d.chars))

\* the blocks of lines descriptions are built from; a description is up to
\* MaxBlocks of them joined by line breaks
AcHeading == <<"#", "#", " ", "A", "c", "c", "e", "p", "t", "a", "n", "c", "e", " ", "C", "r", "i", "t", "e", "r", "i", "a">>    \* the section heading
SubHeading == <<"#", "#", "#", " ", "S", "u", "b">>    \* a deeper heading
DeepHeading == <<"#", "#", "#", "#", " ", "D", "e", "e", "p">>    \* a heading with four #
Gap == <<NL>>    \* joined between two blocks, two blank lines
BoxA == <<"-", " ", "[", " ", "]", " ", "A">>    \* an unchecked box
CheckedA == <<"*", " ", "[", "X", "]", " ", "A", " ">>    \* a checked box with the same text
NumberB == <<"1", ")", " ", "B">>    \* a numbered item
BulletC == <<"-", " ", "C">>    \* a plain bullet
BareBox == <<"-", " ", "[", " ", "]">>    \* a box with no text
Blocks == {AcHeading, SubHeading, DeepHeading, Gap, BoxA, CheckedA, NumberB, BulletC, BareBox}

\* Array.prototype.join("\n")
RECURSIVE Join(_)
Join(lines) ==
  IF lines = <<>> THEN <<>>
  ELSE IF Len(lines) = 1 THEN lines[1]
  ELSE lines[1] \o <<NL>> \o Join(Tail(lines))

Descriptions ==
  {Null, NoDescription} \cup
  {Str(Join(lines)) : lines \in UNION {[1..n -> Blocks] : n \in 0..MaxBlocks}}

\* ------------------------------------------------------- shouldTriggerTests
\* const testingStates = [...]
testingStates ==
  <<<<"r", "e", "a", "d", "y", " ", "f", "o", "r", " ", "t", "e", "s", "t", "i", "n", "g">>,
    <<"r", "e", "a", "d", "y", " ", "t", "o", " ", "t", "e", "s", "t">>,
    <<"i", "n", " ", "t", "e", "s", "t", "i", "n", "g">>,
    <<"t", "e", "s", "t", "i", "n", "g">>>>
Test == <<"t", "e", "s", "t">>

\* payload.data.state and payload.data.labels may be missing
NoState == [present |-> FALSE, name |-> <<>>]
State(name) == [present |-> TRUE, name |-> name]
NoLabels == [present |-> FALSE, names |-> <<>>]
Labels(names) == [present |-> TRUE, names |-> names]
NoPayload == [type |-> "", action |-> "", state |-> NoState, labels |-> NoLabels]

NotAsked == [called |-> FALSE, value |-> FALSE]
Answered(value) == [called |-> TRUE, value |-> value]

\* payload.data.state?.name?.toLowerCase()
currentState(pl) == IF pl.state.present THEN toLowerCase(pl.state.name) ELSE <<>>

\* payload.data.labels?.some(label => label.name.toLowerCase().includes("test")) ?? false
hasTestLabel(pl) ==
  IF pl.labels.present
  THEN \E i \in 1..Len(pl.labels.names) : stringIncludes(toLowerCase(pl.labels.names[i]), Test)
  ELSE FALSE

shouldTriggerTests(pl) ==
  IF pl.type # "Issue" THEN FALSE
  ELSE IF pl.action # "update" THEN FALSE
  ELSE IF currentState(pl) # <<>> /\ includes(testingStates, currentState(pl)) THEN TRUE
  ELSE hasTestLabel(pl)

\* workflow state names and label names carried by payloads
StateNames ==
  {<<"Q", "A">>,
   <<"T", "e", "s", "t", "i", "n", "g">>,
   <<"i", "n", " ", "t", "e", "s", "t", "i", "n", "g">>,
   <<"R", "e", "a", "d", "y", " ", "f", "o", "r", " ", "T", "e", "s", "t", "i", "n", "g">>,
   <<"R", "e", "a", "d", "y", " ", "T", "o", " ", "T", "e", "s", "t">>,
   <<"D", "o", "n", "e">>}
LabelNames ==
  {<<"t", "e", "s", "t">>,
   <<"E", "2", "E", "-", "T", "e", "s", "t", "s">>,
   <<"b", "u", "g">>}
Payloads ==
  [type : {"Issue", "Comment"}, action : {"update", "create"},
   state : {NoState} \cup {State(n) : n \in StateNames},
   labels : {NoLabels} \cup
            {Labels(l) : l \in UNION {[1..n -> LabelNames] : n \in 0..MaxLabels}}]

\* ------------------------------------------------------------------ Init
\* The server's module state after start-up: an empty queue and empty tables.
Idle ==
  /\ queue = <<>>
  /\ running = {}
  /\ awaiting = {}
  /\ promises = <<>>
  /\ nextTid = 1
  /\ issueTests = [i \in IssueIds |-> "none"]
  /\ timers = <<>>
  /\ recordRun = [i \in IssueIds |-> 0]
  /\ runningTests = <<>>
  /\ response = NoResponse
  /\ purged = {}
  /\ last = Step("init", "", 0, {})
  /\ now = 0
  /\ createdAt = <<>>

Init ==
  /\ maxConcurrent \in 1..MaxCeiling
  /\ Idle
  /\ description = NoDescription
  /\ criteria = NotCalled
  /\ payload = NoPayload
  /\ shouldTrigger = NotAsked

\* --------------------------------------------------------------- actions
\* The state change of one enqueue call, shared by every caller.
ApplyEnqueue(id, s) ==
  /\ queue' = s.queue
  /\ running' = s.running
  /\ awaiting' = s.awaiting
  /\ issueTests' = s.issueTests
  /\ promises' = [t \in DOMAIN promises \cup {nextTid} |->
                    IF t = nextTid THEN Pending ELSE promises[t]]
  /\ nextTid' = nextTid + 1

\* A direct caller of testQueue.enqueue(id, work) with an opaque work.
Enqueue(id) ==
  /\ nextTid <= MaxTasks
  /\ LET s == enqueue(id, "direct", issueTests) IN
       /\ ApplyEnqueue(id, s)
       /\ last' = Step("enqueue", id, nextTid, s.admitted)
  /\ UNCHANGED <<maxConcurrent, timers, recordRun, runningTests, response, purged>>
  /\ UNCHANGED <<parserVars, clockVars>>

\* The work of a running task settles with outcome o and processQueue resumes.
Settle(task, o) ==
  /\ task \in awaiting
  /\ LET s == complete(task, FinishWork(task, o, issueTests))
         p == SettlePromise(o, task.tid) IN
       /\ queue' = s.queue
       /\ running' = s.running
       /\ awaiting' = s.awaiting
       /\ issueTests' = s.issueTests
       /\ runningTests' = StartTest(FinishTest(task, o, runningTests), s.admitted)
       /\ timers' = ScheduleCleanup(task, timers)
       /\ promises' = [t \in DOMAIN promises \ {task.tid} |-> promises[t]]
       /\ last' = Completion(task, s.admitted, o, p)
  /\ UNCHANGED <<maxConcurrent, nextTid, recordRun, response, purged>>
  /\ UNCHANGED <<parserVars, clockVars>>

QueueNext ==
  \/ \E id \in Ids : Enqueue(id)
  \/ \E task \in awaiting, o \in Outcomes : Settle(task, o)

QueueSpec == Init /\ [][QueueNext]_vars

\* ------------------------------------------------ works that all settle
\* The callers' works all terminate: the await in processQueue of every
\* invoked work eventually resumes, with a result or a failure.
\* A work returns a result or throws an Error.
WorkOutcomes ==
  {[ok |-> TRUE, val |-> Val("object", 0, "passed", 1)],
   [ok |-> FALSE, val |-> Val("Error", 0, "boom", 3)]}
\* the work of the task that was enqueued as number tid settles
SettleWork(tid) ==
  \E task \in awaiting, o \in WorkOutcomes : task.tid = tid /\ Settle(task, o)

FairNext ==
  \/ \E id \in IssueIds : Enqueue(id)
  \/ \E tid \in 1..MaxTasks : SettleWork(tid)

FairQueueSpec ==
  Init /\ [][FairNext]_vars /\ \A tid \in 1..MaxTasks : WF_vars(SettleWork(tid))

\* ------------------------------------------------- works that never settle
\* The queue has no timeout and no cancellation: a work whose promise stays
\* pending keeps its processQueue call suspended at the await for ever.
\* Callers whose works never settle are those enqueueing under HangIds.
HangIds == {"a", "b"}
NeverSettles(task) == task.id \in HangIds

HangSettle(task, o) ==
  /\ ~NeverSettles(task)
  /\ Settle(task, o)

HangNext ==
  \/ \E id \in Ids : Enqueue(id)
  \/ \E task \in awaiting, o \in Outcomes : HangSettle(task, o)

HangSpec == Init /\ [][HangNext]_vars

\* ------------------------------------------------- POST /webhooks/linear
\* An inbound request: whether its signature verifies, whether its body
\* parses, whether shouldTriggerTests accepts it, how many acceptance
\* criteria its description yields, and the issue id it carries.
Events ==
  [signatureValid : BOOLEAN, payloadValid : BOOLEAN, triggers : BOOLEAN,
   criteria : 0..1, id : IssueIds]

\* mutant: only a running entry counts as a duplicate
HasActiveTest_runningOnly(it, id) == it[id] = "running"

\* mutant: any entry counts as a duplicate, completed ones included
HasActiveTest_anyEntry(it, id) == it[id] # "none"

\* The duplicate check: an entry exists and its status is not "completed".
HasActiveTest(it, id) == it[id] # "none" /\ it[id] # "completed"

\* message of the 202 acknowledgement, from getStatus() taken before enqueue
AckMessage(st) == IF st.running >= st.maxConcurrent THEN "Tests queued" ELSE "Tests started"

\* mutant: the record is stored as queued before the request is rejected
Reject_storesRecord(op, resp) ==
  /\ response' = resp
  /\ last' = Step(op, resp.issueId, 0, {})
  /\ issueTests' = [i \in IssueIds |-> IF i = resp.issueId THEN "queued" ELSE issueTests[i]]
  /\ UNCHANGED <<maxConcurrent, queue, running, awaiting, promises,
                 nextTid, timers, recordRun, runningTests, purged>>
  /\ UNCHANGED <<parserVars, clockVars>>

Reject(op, resp) ==
  /\ response' = resp
  /\ last' = Step(op, resp.issueId, 0, {})
  /\ UNCHANGED <<maxConcurrent, queue, running, awaiting, promises,
                 nextTid, issueTests, timers, recordRun, runningTests, purged>>
  /\ UNCHANGED <<parserVars, clockVars>>

\* The response the handler sends for ev in the current state: the checks in
\* the order of the code, each returning at once, then the acknowledgement
\* built from getStatus() before the enqueue call.
Answer(ev) ==
  IF ~ev.signatureValid THEN
    Resp(401, "Invalid signature", "", "", 0)
  ELSE IF ~ev.payloadValid THEN
    Resp(400, "Invalid payload format", "", "", 0)
  ELSE IF ~ev.triggers THEN
    Resp(200, "Event acknowledged, no tests triggered", "", "", 0)
  ELSE IF ev.criteria = 0 THEN
    Resp(200, "No acceptance criteria found in issue description", ev.id, "", 0)
  ELSE IF HasActiveTest(issueTests, ev.id) THEN
    Resp(409, "Tests already " \o issueTests[ev.id] \o " for this issue",
         ev.id, issueTests[ev.id], 0)
  ELSE
    LET queueStatus == getStatus IN
      Resp(202, AckMessage(queueStatus), ev.id, "", queueStatus.queued + 1)

PostLinear(ev) ==
  IF Answer(ev).code # 202 THEN
    Reject("PostLinear", Answer(ev))
  ELSE
    /\ nextTid <= MaxRuns
    /\ LET s == enqueue(ev.id, "webhook", [issueTests EXCEPT ![ev.id] = "queued"]) IN
         /\ response' = Answer(ev)
         /\ ApplyEnqueue(ev.id, s)
         /\ recordRun' = [recordRun EXCEPT ![ev.id] = nextTid]
         /\ last' = Step("PostLinear", ev.id, nextTid, s.admitted)
    /\ UNCHANGED <<maxConcurrent, timers, runningTests, purged>>
    /\ UNCHANGED <<parserVars, clockVars>>

\* The retention timer set by a finished webhook work fires: issueTests.delete(id).
\* All timers have the same delay, so they fire in the order they were set.
TimerFire ==
  /\ timers # <<>>
  /\ issueTests' = [issueTests EXCEPT ![Head(timers).id] = "none"]
  /\ timers' = Tail(timers)
  /\ recordRun' = [recordRun EXCEPT ![Head(timers).id] = 0]
  /\ purged' = purged \cup {Head(timers).id}
  /\ last' = Step("timer", Head(timers).id, Head(timers).run, {})
  /\ UNCHANGED <<maxConcurrent, queue, running, awaiting, promises,
                 nextTid, runningTests, response>>
  /\ UNCHANGED <<parserVars, clockVars>>

\* ------------------------------------------------- POST /api/run-test
\* A request body: whether criteria is a non-empty array.
Requests == [criteriaValid : BOOLEAN]

PostRunTest(req) ==
  IF ~req.criteriaValid THEN
    Reject("PostRunTest", Resp(400, "Criteria array is required", "", "", 0))
  ELSE
    /\ nextTid <= MaxRuns
    /\ LET testId == generateTestId(nextTid)
           queueStatus == getStatus
           s == enqueue(testId, "api", issueTests) IN
         /\ response' = Resp(200, IF queueStatus.running >= queueStatus.maxConcurrent
                                    THEN "Test queued" ELSE "Test started",
                             testId, "", queueStatus.queued + 1)
         /\ ApplyEnqueue(testId, s)
         /\ runningTests' =
              StartTest([t \in DOMAIN runningTests \cup {nextTid} |->
                           IF t = nextTid THEN "queued" ELSE runningTests[t]],
                        s.admitted)
         /\ createdAt' = [t \in DOMAIN createdAt \cup {nextTid} |->
                             IF t = nextTid THEN now ELSE createdAt[t]]
         /\ last' = Step("PostRunTest", testId, nextTid, s.admitted)
    /\ UNCHANGED <<maxConcurrent, timers, recordRun, purged>>
    /\ UNCHANGED <<parserVars, now>>

Next ==
  \/ \E ev \in Events : PostLinear(ev)
  \/ \E task \in awaiting, o \in Outcomes : Settle(task, o)
  \/ TimerFire

Spec == Init /\ [][Next]_vars

\* Both routes feeding the one queue, within the retention window of the
\* records (no retention timer fires).
RoutesNext ==
  \/ \E ev \in Events : PostLinear(ev)
  \/ \E req \in Requests : PostRunTest(req)
  \/ \E task \in awaiting, o \in Outcomes : Settle(task, o)

RoutesSpec == Init /\ [][RoutesNext]_vars

\* ------------------------------------------- the api route over the hours
\* const CLEANUP_AFTER_MS = 60 * 60 * 1000, in ticks of 30 minutes
CLEANUP_AFTER_MS == 2

\* the test the cleanup callback deletes
Expired(t) == runningTests[t] = "completed" /\ now - createdAt[t] > CLEANUP_AFTER_MS

\* The work of an api task is past `testState.status = "completed"` in its try
\* block and waits at `await saveTestResult(result)`.
Saving(task) ==
  /\ task \in awaiting /\ task.src = "api"
  /\ task.tid \in DOMAIN runningTests => runningTests[task.tid] = "completed"

\* runTestsForIssue resolves: the work stores the result in testState, sets
\* its status to "completed" and awaits saveTestResult.
RunFinished(task) ==
  /\ task \in awaiting /\ task.src = "api"
  /\ ~Saving(task)
  /\ runningTests' = [runningTests EXCEPT ![task.tid] = "completed"]
  /\ last' = Step("RunFinished", task.id, task.tid, {})
  /\ UNCHANGED <<maxConcurrent, queue, running, awaiting, promises, nextTid, issueTests,
                 timers, recordRun, response, purged>>
  /\ UNCHANGED <<parserVars, clockVars>>

\* The work returns its result once saveTestResult has resolved; it throws
\* when runTestsForIssue or saveTestResult rejects.
ApiSettle(task, o) ==
  /\ o.ok => Saving(task)
  /\ Settle(task, o)

\* The setInterval callback: every completed entry older than
\* CLEANUP_AFTER_MS is deleted.
Cleanup ==
  /\ runningTests' = [t \in {u \in DOMAIN runningTests : ~Expired(u)} |-> runningTests[t]]
  /\ createdAt' = [t \in {u \in DOMAIN runningTests : ~Expired(u)} |-> createdAt[t]]
  /\ last' = Step("Cleanup", "", 0, {})
  /\ UNCHANGED <<maxConcurrent, queue, running, awaiting, promises, nextTid, issueTests,
                 timers, recordRun, response, purged, now>>
  /\ UNCHANGED parserVars

\* Time passes.
Tick ==
  /\ now < MaxClock
  /\ now' = now + 1
  /\ UNCHANGED <<maxConcurrent, queue, running, awaiting, promises, nextTid, issueTests,
                 timers, recordRun, runningTests, response, purged, last, createdAt>>
  /\ UNCHANGED parserVars

\* GET /api/test-status/:testId for the test created as number tid
GetTestStatus(tid) ==
  /\ response' = IF tid \in DOMAIN runningTests
                 THEN Resp(200, "", generateTestId(tid), runningTests[tid],
                           getPosition(generateTestId(tid)))
                 ELSE Resp(404, "Test not found", "", "", 0)
  /\ last' = Step("GetTestStatus", generateTestId(tid), tid, {})
  /\ UNCHANGED <<maxConcurrent, queue, running, awaiting, promises, nextTid, issueTests,
                 timers, recordRun, runningTests, purged>>
  /\ UNCHANGED <<parserVars, clockVars>>

ApiNext ==
  \/ \E req \in Requests : PostRunTest(req)
  \/ \E task \in awaiting : RunFinished(task)
  \/ \E task \in awaiting, o \in WorkOutcomes : ApiSettle(task, o)
  \/ Cleanup
  \/ Tick
  \/ \E tid \in 1..MaxRuns : GetTestStatus(tid)

ApiSpec == Init /\ [][ApiNext]_vars

\* ------------------------------------------------------ the payload parser
\* parseIssueForTesting calls extractAcceptanceCriteria on the description of
\* the payload; the function is pure, so it is checked on its own, over
\* every description in Descriptions.
ExtractInit ==
  /\ maxConcurrent = 1
  /\ Idle
  /\ description \in Descriptions
  /\ criteria = NotCalled
  /\ payload = NoPayload
  /\ shouldTrigger = NotAsked

parseIssueForTesting ==
  /\ ~criteria.called
  /\ criteria' = extractAcceptanceCriteria(description)
  /\ UNCHANGED <<maxConcurrent, queue, running, awaiting, promises, nextTid, issueTests,
                 timers, recordRun, runningTests, response, purged, last,
                 description, payload, shouldTrigger, now, createdAt>>

ExtractNext == parseIssueForTesting

ExtractSpec == ExtractInit /\ [][ExtractNext]_vars

\* The route asks shouldTriggerTests(payload) for every valid payload.
TriggerInit ==
  /\ maxConcurrent = 1
  /\ Idle
  /\ description = NoDescription
  /\ criteria = NotCalled
  /\ payload \in Payloads
  /\ shouldTrigger = NotAsked

AskShouldTrigger ==
  /\ ~shouldTrigger.called
  /\ shouldTrigger' = Answered(shouldTriggerTests(payload))
  /\ UNCHANGED <<maxConcurrent, queue, running, awaiting, promises, nextTid, issueTests,
                 timers, recordRun, runningTests, response, purged, last,
                 description, criteria, payload, now, createdAt>>

TriggerNext == AskShouldTrigger

TriggerSpec == TriggerInit /\ [][TriggerNext]_vars

\* ================================================================ claims
\* Vocabulary of the claims.
\* A task is waiting while it is in the waiting line, running from the step
\* that invokes its work until its work settles, settled afterwards.
WaitingTasks == {queue[i] : i \in 1..Len(queue)}
RunningTasks == awaiting
LiveTasks == WaitingTasks \cup RunningTasks
\* The last step was a completion; SettledTask is the task it settled.
HasSettled == last.op = "settle"
SettledTask == last

\* An event that gets as far as the duplicate check of the route: it passes
\* the signature, payload, shouldTriggerTests and criteria checks.
ReachesDuplicateCheck(ev) ==
  ev.signatureValid /\ ev.payloadValid /\ ev.triggers /\ ev.criteria > 0

\* C1: the number of tasks whose work has been invoked and has not yet
\* settled never exceeds the ceiling, whatever ids are submitted.
C1_RunningWithinCeiling == Cardinality(RunningTasks) <= maxConcurrent

\* C2: there are never two unsettled runs (waiting or running in the queue)
\* started by /webhooks/linear for the same issue id.
C2_OneUnsettledRunPerIssue ==
  \A t1, t2 \in LiveTasks :
    (t1.src = "webhook" /\ t2.src = "webhook" /\ t1.id = t2.id) => t1 = t2

\* C3: FIFO admission. Whenever a step invokes the work of a task, every
\* task still waiting arrived after it; so of two tasks that both had to
\* wait, the one enqueued first is invoked first.
C3_FifoAdmission ==
  \A b \in last.admitted : \A a \in WaitingTasks : a.tid > b

\* A completion step admits a task that had to wait while another still waits.
C3_Witness ==
  /\ last.op = "settle"
  /\ \E b \in RunningTasks : last.admitted = {b.tid}
  /\ queue # <<>>

C6_PromiseFollowsWork ==
  /\ DOMAIN promises = {t.tid : t \in LiveTasks}
  /\ \A t \in LiveTasks : promises[t.tid] = Pending
  /\ HasSettled =>
       /\ SettledTask.promise.state # "pending"
       /\ SettledTask.outcome.ok =>
            SettledTask.promise = [state |-> "fulfilled", val |-> SettledTask.outcome.val]
       /\ SettledTask.promise.state = "fulfilled" => SettledTask.outcome.ok

C6_Witness ==
  /\ HasSettled
  /\ SettledTask.promise.state = "fulfilled"
  /\ SettledTask.promise.val \in Results
  /\ queue # <<>>

C8_FailureAdmitsNext ==
  (HasSettled /\ ~SettledTask.outcome.ok /\ last.admitted = {})
    => queue = <<>>

\* C9: getPosition(id) is 0 while the task is running, the task's 1-based
\* index in the waiting line while it waits, and -1 when no task with that id
\* is waiting or running.
C9_PositionMatchesTask ==
  /\ \A t \in RunningTasks : getPosition(t.id) = 0
  /\ \A i \in 1..Len(queue) : getPosition(queue[i].id) = i
  /\ \A id \in Ids : (\A t \in LiveTasks : t.id # id) => getPosition(id) = -1

C11_StatusOnlyAdvances ==
  [][\A i \in IssueIds :
       LET before == issueTests[i]
           after == issueTests'[i] IN
         before # after =>
           \/ before = "queued" /\ after = "running"
           \/ before = "running" /\ after = "completed"
           \/ /\ before \in {"none", "completed"}
              /\ after \in {"queued", "running"}
              /\ last'.op = "PostLinear" /\ last'.id = i /\ response'.code = 202
              /\ \A t \in LiveTasks : t.id # i
           \/ /\ before = "completed" /\ after = "none"
              /\ \A t \in LiveTasks : t.id # i]_vars

\* C20: a retention timer removes a record only when the record is completed
\* and belongs to the run that set the timer; the timer of an earlier run
\* never removes the record a later run of the same id created.
C20_RemovesOnlyOwnCompletedRecord ==
  [][(TimerFire /\ issueTests[Head(timers).id] # "none") =>
       /\ issueTests[Head(timers).id] = "completed"
       /\ recordRun[Head(timers).id] = Head(timers).run]_vars

\* C12: the step in which the work of an accepted run settles sets the run's
\* record to completed, on success and on failure alike (a webhook record
\* reads running afterwards only if that same step admitted a waiting run of
\* the same issue, whose work sets it next); a failure rejects the promise
\* the queue returned, with the Error thrown or an Error carrying its text.
C12_SettleCompletesRecord ==
  HasSettled =>
    /\ SettledTask.src = "webhook" =>
         issueTests[SettledTask.id] =
           IF \E t \in RunningTasks : t.tid \in last.admitted /\ t.id = SettledTask.id
           THEN "running" ELSE "completed"
    /\ SettledTask.src = "api" => runningTests[SettledTask.tid] = "completed"
    /\ ~SettledTask.outcome.ok =>
         /\ SettledTask.promise.state = "rejected"
         /\ SettledTask.promise.val.kind = "Error"
         /\ SettledTask.outcome.val.kind = "Error" =>
              SettledTask.promise.val = SettledTask.outcome.val
         /\ SettledTask.outcome.val.kind = "string" =>
              SettledTask.promise.val.text = SettledTask.outcome.val.text

\* The work of a webhook run has failed: its record is completed and the
\* promise of its task rejected.
C12_Witness ==
  /\ HasSettled
  /\ SettledTask.src = "webhook"
  /\ ~SettledTask.outcome.ok
  /\ SettledTask.promise.state = "rejected"
  /\ issueTests[SettledTask.id] = "completed"

\* C13: a running task whose work never settles keeps its slot, and from the
\* moment maxConcurrent never-settling tasks are running no step admits a
\* task (so no task enqueued later is invoked or has its promise settled).
\* HungBefore is the set of never-settling tasks that were already running
\* before the last step: they never leave RunningTasks.
C13_HungTasksBlockAdmission ==
  LET HungBefore == {t \in RunningTasks : NeverSettles(t) /\ t.tid \notin last.admitted} IN
    /\ \A t \in RunningTasks : NeverSettles(t) => isRunning(t.id)
    /\ Cardinality(HungBefore) >= maxConcurrent => last.admitted = {}

\* Vocabulary of the extraction claims.  The text a call searched, and every
\* match of one expression in it, in text order, trimmed (duplicates and
\* empty texts included).
SearchedText == textToSearch(description.chars)
Section == acSectionMatch(description.chars)
RECURSIVE AllMatches(_, _, _)
AllMatches(regex, t, lastIndex) ==
  LET match == exec(regex, t, lastIndex) IN
    IF ~match.found THEN <<>>
    ELSE <<trim(SubSeq(t, match.from, match.to - 1))>> \o AllMatches(regex, t, match.to - 1)
ItemTexts(regex, t) ==
  LET all == AllMatches(regex, t, 0) IN
    {x \in {all[i] : i \in 1..Len(all)} : x # <<>>}
FirstIndex(seq, x) == Least({i \in 1..Len(seq) : seq[i] = x})
Extracted == criteria.called /\ description.kind = "string"

\* C14: every element of the result is non-empty, has no leading or trailing
\* white space, differs from every other element, and the elements stand in
\* the order in which their texts first occur as items of the searched text
\* (so a checked and an unchecked box with the same text give one element).
C14_TrimmedDistinctInOrder ==
  Extracted =>
    LET list == criteria.value
        text == SearchedText IN
      /\ \A i \in 1..Len(list) :
           /\ list[i] # <<>>
           /\ ~IsSpace(list[i][1]) /\ ~IsSpace(list[i][Len(list[i])])
      /\ \A i, j \in 1..Len(list) : i # j => list[i] # list[j]
      /\ \E regex \in {"checkbox", "numbered", "bullet"} :
           LET items == AllMatches(regex, text, 0) IN
             /\ \A i \in 1..Len(list) : includes(items, list[i])
             /\ \A i, j \in 1..Len(list) :
                  i < j => FirstIndex(items, list[i]) < FirstIndex(items, list[j])

\* An unchecked and a checked box with the same text, then a numbered item
\* taken as the text of a bare box: two elements, the repeated text once.
C14_Witness ==
  /\ Extracted
  /\ description.chars = Join(<<BoxA, CheckedA, BareBox, NumberB>>)
  /\ criteria.value = << <<"A">>, <<"1", ")", " ", "B">> >>

\* C15: strict precedence. When the searched text holds a checkbox item with
\* non-empty text, every element of the result is the text of a checkbox
\* item; when it holds none but holds a numbered item, every element is the
\* text of a numbered item.
C15_StrictPrecedence ==
  Extracted =>
    LET text == SearchedText
        boxes == ItemTexts("checkbox", text)
        numbers == ItemTexts("numbered", text)
        list == criteria.value IN
      /\ boxes # {} => {list[i] : i \in 1..Len(list)} = boxes
      /\ (boxes = {} /\ numbers # {}) => {list[i] : i \in 1..Len(list)} = numbers

\* A section with a box and a numbered item: only the box is returned.
C15_Witness ==
  /\ Extracted
  /\ description.chars = Join(<<AcHeading, NumberB, BoxA>>)
  /\ criteria.value = << <<"A">> >>

\* C16: without a heading section and without checkbox or numbered items the
\* result is empty, whatever bullets the text holds; bullets are returned
\* only from a section, and only when its checkbox and numbered scans found
\* nothing.
C16_BulletsOnlyInSection ==
  Extracted =>
    LET section == Section
        text == IF section.found
                THEN SubSeq(description.chars, section.from, section.to - 1)
                ELSE description.chars
        boxes == ItemTexts("checkbox", text)
        numbers == ItemTexts("numbered", text)
        bullets == ItemTexts("bullet", text)
        list == criteria.value IN
      /\ (~section.found /\ boxes = {} /\ numbers = {}) => list = <<>>
      /\ (boxes = {} /\ numbers = {} /\ list # <<>>) =>
           /\ section.found
           /\ {list[i] : i \in 1..Len(list)} = bullets

\* Bullets and no heading: nothing is returned although the bullet
\* expression matches.
C16_Witness ==
  /\ Extracted
  /\ description.chars = Join(<<BulletC, BulletC>>)
  /\ ItemTexts("bullet", SearchedText) # {}
  /\ criteria.value = <<>>

\* Vocabulary of C17: the depth of the heading of the section the call found
\* and the two readings of where a body that starts at from ends.
HeadingDepth ==
  LET t == description.chars
      h == FirstHeading(t, 1) IN
    SkipHashes(t, h) - h
\* a line break at e followed by a heading of exactly k '#' and white space
HeadingFollows(t, e, k) ==
  /\ e + k + 1 <= Len(t)
  /\ t[e] = NL
  /\ \A j \in 1..k : t[e + j] = "#"
  /\ IsSpace(t[e + k + 1])
\* a line break at e followed by two blank lines
BlankLinesFollow(t, e) ==
  e + 2 <= Len(t) /\ t[e] = NL /\ t[e + 1] = NL /\ t[e + 2] = NL
\* the first position from e on where the body ends
RECURSIVE BodyEnd(_, _, _)
BodyEnd(t, e, maxDepth) ==
  IF \/ e = Len(t) + 1
     \/ \E k \in 1..maxDepth : HeadingFollows(t, e, k)
     \/ BlankLinesFollow(t, e)
  THEN e
  ELSE BodyEnd(t, e + 1, maxDepth)

\* C17 as stated: the body of the section ends before the next heading whose
\* depth is that of the Acceptance Criteria heading or shallower, before two
\* consecutive blank lines, or at the end of the text; a deeper sub-heading
\* does not end it.
C17_EndsAtSameOrShallowerHeading ==
  Extracted =>
    LET section == Section IN
      section.found =>
        section.to = BodyEnd(description.chars, section.from, HeadingDepth)

\* C17 amended: the body starts after the last line break of the white space
\* that follows the heading text, and ends before the first later line break
\* that is followed by a heading of one to three '#' (whatever the depth of
\* the Acceptance Criteria heading) or by two blank lines, or at the end of
\* the text; the extraction searches exactly that body.
C17_EndsAtAnyHeading ==
  Extracted =>
    LET t == description.chars
        section == Section IN
      section.found =>
        /\ t[section.from - 1] = NL
        /\ \A k \in section.from..(SkipSpace(t, section.from) - 1) : t[k] # NL
        /\ section.to = BodyEnd(t, section.from, 3)
        /\ SearchedText = SubSeq(t, section.from, section.to - 1)

\* A "##" section with a bullet, then a "###" sub-heading with a box: the
\* body ends at the sub-heading and only the bullet is returned.
C17_Witness ==
  /\ Extracted
  /\ description.chars = Join(<<AcHeading, BulletC, SubHeading, BoxA>>)
  /\ SearchedText = BulletC
  /\ criteria.value = << <<"C">> >>

\* C18: the call returns the empty list, and throws nothing, for a null, an
\* undefined and an empty description, and for a description in which none
\* of the three item expressions matches.
C18_EmptyForNothingToExtract ==
  criteria.called =>
    /\ ~criteria.threw
    /\ IsFalsy(description) => criteria.value = <<>>
    /\ (description.kind = "string" /\
        \A regex \in {"checkbox", "numbered", "bullet"} :
          ~exec(regex, description.chars, 0).found)
         => criteria.value = <<>>

\* the call was made with null and returned the empty list
C18_Witness ==
  /\ criteria.called
  /\ description = Null
  /\ criteria = Returned(<<>>)

\* C19: for a payload of type "Issue" and action "update" the answer is true
\* when the state name is, in any case, one of "Ready for Testing", "Ready to
\* Test", "In Testing", "QA", "Testing", or when a label contains "test"; for
\* a payload of another type or action the answer is false.
C19_TriggersOnDocumentedStates ==
  shouldTrigger.called =>
    LET name == IF payload.state.present THEN toLowerCase(payload.state.name) ELSE <<>>
        documented == {<<"r", "e", "a", "d", "y", " ", "f", "o", "r", " ",
                         "t", "e", "s", "t", "i", "n", "g">>,
                       <<"r", "e", "a", "d", "y", " ", "t", "o", " ", "t", "e", "s", "t">>,
                       <<"i", "n", " ", "t", "e", "s", "t", "i", "n", "g">>,
                       <<"q", "a">>,
                       <<"t", "e", "s", "t", "i", "n", "g">>}
        labelled == /\ payload.labels.present
                    /\ \E i \in 1..Len(payload.labels.names) :
                         stringIncludes(toLowerCase(payload.labels.names[i]), Test)
    IN /\ (payload.type = "Issue" /\ payload.action = "update"
            /\ (name \in documented \/ labelled)) => shouldTrigger.value
       /\ (payload.type # "Issue" \/ payload.action # "update") => ~shouldTrigger.value

\* C21: in a completion step the promise of the finished task is settled and
\* the admission check sees the running set with the finished task's id
\* already removed: a task is admitted exactly when the set without that id
\* is below the ceiling and a task waits, and the admitted task is the head
\* of the waiting line.  A step that invokes the work of a waiting task is
\* an enqueue call or a completion.
C21_CompletionOrder ==
  [][LET invoked == awaiting' \ awaiting
         finished == awaiting \ awaiting' IN
       /\ invoked # {} => (nextTid' = nextTid + 1 \/ finished # {})
       /\ \A task \in finished :
            LET others == MapDelete(running, task.id) IN
              /\ last'.op = "settle" /\ last'.tid = task.tid
              /\ last'.promise.state # "pending"
              /\ task.tid \notin DOMAIN promises'
              /\ (MapSize(others) < maxConcurrent /\ queue # <<>>)
                   => (invoked = {Head(queue)} /\ running' = MapSet(others, Head(queue).id))
              /\ (MapSize(others) >= maxConcurrent \/ queue = <<>>)
                   => (invoked = {} /\ running' = others)]_vars

\* ceiling 1: the completion of the only running task admitted the task that
\* waited, which is now alone in the running set
C21_Witness ==
  /\ HasSettled
  /\ maxConcurrent = 1
  /\ \E b \in RunningTasks : last.admitted = {b.tid} /\ running = {b.id} /\ b.id # last.id

\* C22: a record with status "running" has its issue id in the queue's running
\* set, a record with status "queued" has a task with its id in the waiting
\* line, and a record becomes "running" in the step in which the queue
\* invokes the work of a task with that id: an accepted event whose task has
\* to wait leaves the record "queued".
C22_RecordAgreesWithQueue ==
  /\ [](\A id \in IssueIds :
          /\ issueTests[id] = "running" => (isRunning(id) /\ \E task \in RunningTasks : task.id = id)
          /\ issueTests[id] = "queued" => (isQueued(id) /\ \E task \in WaitingTasks : task.id = id))
  /\ [][LET invoked == awaiting' \ awaiting IN
          /\ \A id \in IssueIds :
               (issueTests'[id] = "running" /\ issueTests[id] # "running")
                 => \E task \in invoked : task.id = id
          /\ \A task \in invoked : issueTests'[task.id] = "running"
          /\ (nextTid' = nextTid + 1 /\ invoked = {})
               => issueTests'[last'.id] = "queued"]_vars

\* the record of an issue whose task had to wait became "running" in a
\* completion step, while the record of the finished task is "completed"
C22_Witness ==
  /\ HasSettled
  /\ issueTests[last.id] = "completed"
  /\ \E id \in IssueIds : issueTests[id] = "running" /\ last.admitted = {recordRun[id]}

\* C23: the work of a task is invoked in the step that takes the task off the
\* head of the waiting line (the line including a task enqueued in that
\* step) and puts its id in the running set; a task whose work was invoked
\* is never in the waiting line again, so no work is invoked twice, none is
\* invoked while its task waits, and a work that failed is not invoked again.
C23_InvokedOnceOnAdmission ==
  /\ [](/\ WaitingTasks \cap RunningTasks = {}
        /\ \A task \in LiveTasks : task.tid < nextTid /\ task.tid \in DOMAIN promises
        /\ \A i, j \in 1..Len(queue) : queue[i].tid = queue[j].tid => i = j
        /\ \A t1, t2 \in RunningTasks : t1.tid = t2.tid => t1 = t2)
  /\ [][LET invoked == awaiting' \ awaiting
            enqueued == nextTid' - nextTid IN
          /\ Cardinality(invoked) <= 1
          /\ \A task \in invoked :
               /\ IF queue # <<>>
                    THEN /\ task = Head(queue)
                         /\ Len(queue') = Len(queue) - 1 + enqueued
                         /\ SubSeq(queue', 1, Len(queue) - 1) = Tail(queue)
                    ELSE task.tid = nextTid /\ enqueued = 1 /\ queue' = <<>>
               /\ isRunning(task.id)'
               /\ last'.admitted = {task.tid}
          /\ invoked = {}
               => /\ Len(queue') = Len(queue) + enqueued
                  /\ SubSeq(queue', 1, Len(queue)) = queue
                  /\ last'.admitted = {}
          /\ \A task \in RunningTasks \ RunningTasks' :
               task \notin WaitingTasks' /\ task.tid \notin DOMAIN promises']_vars

\* a work failed; the step admitted another task and the failed one is neither
\* waiting nor running
C23_Witness ==
  /\ HasSettled
  /\ ~last.outcome.ok
  /\ last.admitted # {} /\ last.tid \notin last.admitted
  /\ \A task \in LiveTasks : task.tid # last.tid

\* C24: getStatus() counts every submitted task whose promise has not settled
\* exactly once: a waiting task in queued and queuedIds, a task whose work is
\* in flight in running and runningIds; the ids listed belong to such tasks
\* and the two counts are the numbers of such tasks.
C24_StatusCountsEveryTask ==
  LET st == getStatus IN
    /\ st.queued = Cardinality(WaitingTasks)
    /\ st.queuedIds = [i \in 1..Len(queue) |-> queue[i].id]
    /\ st.running = Cardinality(RunningTasks)
    /\ Cardinality(st.runningIds) = Cardinality(RunningTasks)
    /\ st.runningIds = {task.id : task \in RunningTasks}
    /\ \A tid \in DOMAIN promises : \E task \in LiveTasks : task.tid = tid

\* C25: the answer to a /webhooks/linear request is decided by the first
\* check it fails, in the order signature (401), payload (400), triggering
\* event (200), non-empty criteria (200), no queued or running record (409);
\* a request that fails a check leaves the record table, the queue and the
\* timers as they were, and a step that enqueues a task or stores a queued
\* record is a request that passed all five checks.
C25_ChecksInOrder ==
  /\ [](\A ev \in Events :
          LET resp == Answer(ev) IN
            /\ resp.code = IF ~ev.signatureValid THEN 401
                           ELSE IF ~ev.payloadValid THEN 400
                           ELSE IF ~ev.triggers THEN 200
                           ELSE IF ev.criteria = 0 THEN 200
                           ELSE IF issueTests[ev.id] \in {"queued", "running"} THEN 409
                           ELSE 202
            /\ ~ev.signatureValid => resp.message = "Invalid signature"
            /\ (ev.signatureValid /\ ~ev.payloadValid) => resp.message = "Invalid payload format"
            /\ (ev.signatureValid /\ ev.payloadValid /\ ~ev.triggers)
                 => resp.message = "Event acknowledged, no tests triggered"
            /\ (ev.signatureValid /\ ev.payloadValid /\ ev.triggers /\ ev.criteria = 0)
                 => resp.message = "No acceptance criteria found in issue description")
  /\ [][/\ last'.op = "PostLinear" =>
             /\ \E ev \in Events : response' = Answer(ev)
             /\ response'.code # 202 =>
                  UNCHANGED <<queue, running, awaiting, promises, nextTid, issueTests,
                              timers, recordRun>>
             /\ response'.code = 202 =>
                  /\ nextTid' = nextTid + 1
                  /\ recordRun'[last'.id] = nextTid
                  /\ issueTests[last'.id] \in {"none", "completed"}
                  /\ issueTests'[last'.id] \in {"queued", "running"}
                  /\ \E task \in LiveTasks' \ LiveTasks :
                       task.tid = nextTid /\ task.id = last'.id
        /\ (nextTid' # nextTid
              \/ \E id \in IssueIds : issueTests'[id] = "queued" /\ issueTests[id] # "queued")
             => \E ev \in Events :
                  /\ ReachesDuplicateCheck(ev)
                  /\ issueTests[ev.id] \notin {"queued", "running"}
                  /\ PostLinear(ev)]_vars

\* a request with a bad payload was answered 400 while one issue has a task
\* in the waiting line and a queued record
C25_Witness ==
  /\ last.op = "PostLinear"
  /\ response.code = 400
  /\ \E task \in WaitingTasks : issueTests[task.id] = "queued"

Lines(t) ==
  {SubSeq(t, p, LineEnd(t, p) - 1) : p \in {q \in 1..(Len(t) + 1) : IsLineStart(t, q)}}
BareBoxLine(line) ==
  LET q == SkipSpace(line, 1)
      b == SkipSpace(line, q + 1) IN
    /\ q <= Len(line) /\ IsMarker(line[q])
    /\ b + 2 <= Len(line) /\ line[b] = "[" /\ LowerChar(line[b + 1]) \in {" ", "x"}
    /\ line[b + 2] = "]"
    /\ SkipSpace(line, b + 3) > Len(line)

\* C27: every element of the result is the trimmed text that follows the
\* marker on one line of the searched text, that line taken alone; a line
\* that is a box with nothing but white space after it gives no element, and
\* the text of the line after it is not collected as its text.
C27_OneLinePerCriterion ==
  Extracted =>
    LET lines == Lines(SearchedText)
        list == criteria.value IN
      \A i \in 1..Len(list) :
        \E line \in lines, regex \in {"checkbox", "numbered", "bullet"} :
          LET match == RegexAt(regex, line, 1) IN
            /\ ~BareBoxLine(line)
            /\ match.found
            /\ list[i] = trim(SubSeq(line, match.from, match.to - 1))

\* C28: when every invoked work settles, every enqueued task is eventually
\* admitted and its promise eventually settles.  In runs of at most MaxTasks
\* enqueue calls: whatever has been enqueued, a state follows in which every
\* task enqueued so far has left the waiting line, has had its work settled
\* and has a settled promise.
C28_EveryTaskSettles ==
  []<>(\A tid \in 1..(nextTid - 1) :
         /\ \A task \in LiveTasks : task.tid # tid
         /\ tid \notin DOMAIN promises)

\* ceiling 1: the last of at least three tasks, two of which had to wait, has
\* settled and nothing is left waiting or running
C28_Witness ==
  /\ maxConcurrent = 1
  /\ nextTid > 3
  /\ HasSettled /\ SettledTask.tid = nextTid - 1
  /\ LiveTasks = {} /\ promises = <<>>

\* C29: after a step that accepted a run (POST /api/run-test or POST
\* /webhooks/linear) the acknowledgement says "started" exactly when the
\* enqueue call of that step invoked the work of the task, "queued" exactly
\* when the task is in the waiting line, and the position it reports is
\* getPosition(id) of the task in the state the enqueue call left.
C29_AckMatchesQueue ==
  (last.op \in {"PostRunTest", "PostLinear"} /\ last.tid # 0) =>
    LET started == response.message \in {"Test started", "Tests started"}
        queued == response.message \in {"Test queued", "Tests queued"} IN
      /\ started \/ queued
      /\ started <=> last.tid \in last.admitted
      /\ queued <=> \E task \in WaitingTasks : task.tid = last.tid
      /\ response.position = getPosition(last.id)

\* C30: a step removes a record of the api table only if the record is
\* completed and was created more than one hour before; so every test whose
\* task is still waiting or running in the queue has a record, and a GET
\* /api/test-status for it is answered 200.
C30_CleanupKeepsUnsettledTests ==
  /\ [][\A t \in DOMAIN runningTests \ DOMAIN runningTests' :
          /\ runningTests[t] = "completed"
          /\ now - createdAt[t] > CLEANUP_AFTER_MS]_vars
  /\ [](\A task \in LiveTasks : task.src = "api" => task.tid \in DOMAIN runningTests)
  /\ []((last.op = "GetTestStatus" /\ \E task \in LiveTasks : task.tid = last.tid)
          => response.code = 200)

====
